---- MODULE Spec2Model ----
(***************************************************************************)
(* Model of the GPU plugin pass                                            *)
(* ConvertFullyConnectedToFullyConnectedCompressed                         *)
(* (src/plugins/intel_gpu/src/plugin/transformations/                      *)
(*  convert_fc_to_compressed.cpp).                                         *)
(*                                                                         *)
(* The graph is an arena: a function from node identifiers to node         *)
(* records.  Every node of the pattern has a single output, so an edge is  *)
(* (consumer, input port) -> producer, kept in the consumer's "in" field.  *)
(* The set of target inputs of an output is derived from these edges.      *)
(***************************************************************************)
EXTENDS Integers, Sequences, FiniteSets, TLC

VARIABLES graph,     \* the model's nodes: id -> node record
          queue,     \* nodes the matcher pass still has to visit in this run
          runs,      \* number of runs of the pass started so far
          phase,     \* "idle" | "running" | "failed" (an exception left the pass)
          rewrites,  \* number of callbacks that returned true
          last       \* record of the latest matcher attempt

vars == <<graph, queue, runs, phase, rewrites, last>>

(***************************************************************************)
(* Bounds of the model.                                                    *)
(***************************************************************************)
MaxDim   == 2   \* dimensions of the generated constants range over 1..MaxDim
MaxRank  == 4   \* weight constants have rank 1..MaxRank
MaxExtra == 1   \* how many of the constants get a second consumer
MaxRuns  == 2   \* how many times the pass is run over the model

\* The shape of the concrete scenario of the canonicalization law.
ScenarioShape == <<2, 4, 8>>

None == ""      \* "no node": an unbound pattern node, a null pointer

(***************************************************************************)
(* Shapes.                                                                 *)
(***************************************************************************)
RECURSIVE ShapeSize(_)
ShapeSize(s) == IF Len(s) = 0 THEN 1 ELSE s[1] * ShapeSize(Tail(s))

Max2(a, b) == IF a >= b THEN a ELSE b

\* numpy broadcast of two shapes (right aligned); the generated graphs are
\* broadcast-compatible
Broadcast(a, b) ==
    LET r == Max2(Len(a), Len(b))
        da(i) == IF i > r - Len(a) THEN a[i - (r - Len(a))] ELSE 1
        db(i) == IF i > r - Len(b) THEN b[i - (r - Len(b))] ELSE 1
    IN [i \in 1..r |-> Max2(da(i), db(i))]

\* output shape of a Transpose: an empty order reverses the axes
Permute(s, order) ==
    IF Len(order) = 0
    THEN [i \in 1..Len(s) |-> s[Len(s) + 1 - i]]
    ELSE [i \in 1..Len(order) |-> s[order[i] + 1]]

(***************************************************************************)
(* Nodes.                                                                  *)
(***************************************************************************)
Node(type, in, shape, et, name, val, buf) ==
    [type |-> type, in |-> in, shape |-> shape, et |-> et, name |-> name,
     val |-> val, buf |-> buf, rt |-> {}]

Constant(id, et, shape, val) == Node("Constant", <<>>, shape, et, id, val, id)

IsNode(g, n) == n \in DOMAIN g

\* output.get_target_inputs(): the (consumer, port) pairs reading node n
TargetInputs(g, n) ==
    {cp \in UNION {{<<c, p>> : p \in 1..Len(g[c].in)} : c \in DOMAIN g} :
        g[cp[1]].in[cp[2]] = n}

Consumers(g, n) == {cp[1] : cp \in TargetInputs(g, n)}

(***************************************************************************)
(* Pattern specification (constructor, lines 26-61).  Each pattern node is *)
(* a predicate on a graph node; an Or tries its alternatives in order.     *)
(* All shapes of the modelled graphs are static, so the rank().is_static() *)
(* tests of reshape_3d_to_2d hold.                                         *)
(***************************************************************************)
IsType(g, n, t) == IsNode(g, n) /\ g[n].type = t

\* wrap_type<T>({p1, ..., pk}): the node has exactly the k inputs
HasInputs(g, n, k) == Len(g[n].in) = k

consumers_count(g, n, k) == Cardinality(TargetInputs(g, n)) = k

\* mutant: the weight constant may have any number of consumers
compressed_constant_AnyConsumers(g, n) ==
    g[n].et \in {"u8", "i8"}

compressed_constant(g, n) ==
    /\ g[n].et \in {"u8", "i8"}
    /\ Cardinality(TargetInputs(g, n)) = 1

reshape_3d_to_2d(g, n) ==
    /\ Len(g[g[n].in[1]].shape) = 3
    /\ Len(g[n].shape) = 2

weights_m(g, n) == IsType(g, n, "Constant") /\ compressed_constant(g, n)

convert_m(g, n) ==
    IsType(g, n, "Convert") /\ HasInputs(g, n, 1) /\ weights_m(g, g[n].in[1])

sub_const_m(g, n) == IsType(g, n, "Constant") /\ consumers_count(g, n, 1)

subtract_m(g, n) ==
    /\ IsType(g, n, "Subtract") /\ HasInputs(g, n, 2)
    /\ convert_m(g, g[n].in[1])
    /\ sub_const_m(g, g[n].in[2])

mul_const_m(g, n) == IsType(g, n, "Constant") /\ consumers_count(g, n, 1)

mul_with_sub_m(g, n) ==
    /\ IsType(g, n, "Multiply") /\ HasInputs(g, n, 2)
    /\ subtract_m(g, g[n].in[1])
    /\ mul_const_m(g, g[n].in[2])

mul_no_sub_m(g, n) ==
    /\ IsType(g, n, "Multiply") /\ HasInputs(g, n, 2)
    /\ convert_m(g, g[n].in[1])
    /\ mul_const_m(g, g[n].in[2])

mul_m(g, n) == mul_with_sub_m(g, n) \/ mul_no_sub_m(g, n)

reshape_const_m(g, n) == IsType(g, n, "Constant")

reshape_m(g, n) ==
    /\ IsType(g, n, "Reshape") /\ HasInputs(g, n, 2)
    /\ mul_m(g, g[n].in[1])
    /\ reshape_const_m(g, g[n].in[2])
    /\ reshape_3d_to_2d(g, n)

transpose_input(g, n) == reshape_m(g, n) \/ mul_m(g, n)

transpose_const_m(g, n) == IsType(g, n, "Constant")

transpose_m(g, n) ==
    /\ IsType(g, n, "Transpose") /\ HasInputs(g, n, 2)
    /\ transpose_input(g, g[n].in[1])
    /\ transpose_const_m(g, g[n].in[2])

data_m(g, n) == IsNode(g, n)

weights_input_m(g, n) == reshape_m(g, n) \/ transpose_m(g, n) \/ mul_m(g, n)

\* Whether a FullyConnectedCompressed node is taken for a FullyConnected root
\* is decided by the type hierarchy of the two operators, declared outside
\* this file.  The root accepts both, the weaker assumption for what is
\* shown below; the number of inputs of the root is not constrained either,
\* only its first two inputs are matched.
IsFullyConnected(g, n) ==
    IsNode(g, n) /\ g[n].type \in {"FullyConnected", "FullyConnectedCompressed"}

fully_connected_m(g, n) ==
    /\ IsFullyConnected(g, n)
    /\ Len(g[n].in) >= 2
    /\ data_m(g, g[n].in[1])
    /\ weights_input_m(g, g[n].in[2])

\* m.get_pattern_value_map() after a successful match at root: the pattern
\* nodes of the alternatives that matched, None for the others.
pattern_map(g, root) ==
    LET wi  == g[root].in[2]
        rs0 == IF reshape_m(g, wi) THEN wi ELSE None
        tr  == IF rs0 = None /\ transpose_m(g, wi) THEN wi ELSE None
        ti  == IF tr # None THEN g[tr].in[1] ELSE wi
        rs  == IF reshape_m(g, ti) THEN ti ELSE None
        mul == IF rs # None THEN g[rs].in[1] ELSE ti
        sub == IF mul_with_sub_m(g, mul) THEN g[mul].in[1] ELSE None
        cvt == IF sub # None THEN g[sub].in[1] ELSE g[mul].in[1]
    IN [matched |-> TRUE,
        fully_connected_m |-> root,
        data_m      |-> g[root].in[1],
        transpose_m |-> tr,
        transpose_const_m |-> IF tr # None THEN g[tr].in[2] ELSE None,
        reshape_m   |-> rs,
        reshape_const_m |-> IF rs # None THEN g[rs].in[2] ELSE None,
        mul_m       |-> mul,
        mul_const_m |-> g[mul].in[2],
        subtract_m  |-> sub,
        sub_const_m |-> IF sub # None THEN g[sub].in[2] ELSE None,
        convert_m   |-> cvt,
        weights_m   |-> g[cvt].in[1]]

NoMatch ==
    [matched |-> FALSE, fully_connected_m |-> None, data_m |-> None,
     transpose_m |-> None, transpose_const_m |-> None, reshape_m |-> None,
     reshape_const_m |-> None, mul_m |-> None, mul_const_m |-> None,
     subtract_m |-> None, sub_const_m |-> None, convert_m |-> None,
     weights_m |-> None]

\* the matcher at one root: the binding map, or NoMatch
Match(g, root) ==
    IF fully_connected_m(g, root) THEN pattern_map(g, root) ELSE NoMatch

\* m.get_matched_nodes()
MatchedNodes(m) ==
    {m.fully_connected_m, m.data_m, m.transpose_m, m.transpose_const_m,
     m.reshape_m, m.reshape_const_m, m.mul_m, m.mul_const_m, m.subtract_m,
     m.sub_const_m, m.convert_m, m.weights_m} \ {None}

(***************************************************************************)
(* The matcher callback (lines 63-138).                                    *)
(***************************************************************************)
\* identifier of a node created from node n; fresh nodes get their
\* identifier as automatically generated friendly name
NewId(n, suffix) == n \o "_" \o suffix

\* line 76: more than one dimension of the scale shape is greater than 1
Grouped(scale_shape) ==
    Cardinality({i \in 1..Len(scale_shape) : scale_shape[i] > 1}) > 1

\* mutant: every rank from 2 on is taken for a rank the merge handles
RankOk_AtLeast2(shape) == Len(shape) >= 2

\* lines 82 and 84: the ranks reshape_const_to_2d accepts; any other rank
\* fails OPENVINO_ASSERT(current_shape.size() == 3)
RankOk(shape) == Len(shape) = 2 \/ Len(shape) = 3

\* mutant: the first two dimensions are merged only if a transpose was
\* matched and the scale is not grouped
reshape_const_to_2d_AndNotGrouped(current_shape, has_transpose, grouped) ==
    IF Len(current_shape) = 2
    THEN current_shape
    ELSE IF has_transpose /\ ~grouped
         THEN <<current_shape[1] * current_shape[2], current_shape[3]>>
         ELSE <<current_shape[1], current_shape[2] * current_shape[3]>>

\* lines 81-87: the shape of the constant reshape_const_to_2d returns
reshape_const_to_2d(current_shape, has_transpose, grouped) ==
    IF Len(current_shape) = 2
    THEN current_shape
    ELSE IF has_transpose \/ ~grouped
         THEN <<current_shape[1] * current_shape[2], current_shape[3]>>
         ELSE <<current_shape[1], current_shape[2] * current_shape[3]>>

\* lines 78-90: the constant reshape_const_to_2d returns for constant n: n
\* itself when its rank is 2, else a new constant sharing n's data buffer
ConstTo2d(g, n, has_transpose, grouped) ==
    IF Len(g[n].shape) = 2
    THEN [id |-> n, node |-> g[n]]
    ELSE [id |-> NewId(n, "2d"),
          node |-> [g[n] EXCEPT
                      !.shape = reshape_const_to_2d(g[n].shape, has_transpose, grouped),
                      !.name = NewId(n, "2d"),
                      !.rt = {}]]

\* mutant: the swap of the last two entries is left out
NewOrder_Iota(r) == [i \in 1..r |-> i - 1]

\* lines 108-110: iota, then the last two entries swapped
NewOrder(r) ==
    [i \in 1..r |-> IF i = r THEN r - 2 ELSE IF i = r - 1 THEN r - 1 ELSE i - 1]

\* lines 106-112: the permutation constant the clones of the transpose read:
\* the matched one, or a fresh one when its element count is not the rank of
\* the canonical weight
TransposeConst(g, tc, rank) ==
    IF ShapeSize(g[tc].shape) # rank
    THEN [id |-> NewId(tc, "order"),
          node |-> Constant(NewId(tc, "order"), "i32", <<rank>>, NewOrder(rank))]
    ELSE [id |-> tc, node |-> g[tc]]

\* mutant: scale and zero-point are transposed by the matched permutation
\* constant, the weight by the recomputed one
TransposeClone_MatchedOrder(g, tr, c, order) ==
    [id |-> NewId(c.id, "transposed"),
     node |-> [g[tr] EXCEPT
                 !.in = <<c.id, IF c.node.et \in {"u8", "i8"} THEN order.id ELSE g[tr].in[2]>>,
                 !.shape = Permute(c.node.shape, order.node.val),
                 !.et = c.node.et,
                 !.name = NewId(c.id, "transposed"),
                 !.rt = {}]]

\* lines 114-117: transpose->clone_with_new_inputs({c->output(0), order})
TransposeClone(g, tr, c, order) ==
    [id |-> NewId(c.id, "transposed"),
     node |-> [g[tr] EXCEPT
                 !.in = <<c.id, order.id>>,
                 !.shape = Permute(c.node.shape, order.node.val),
                 !.et = c.node.et,
                 !.name = NewId(c.id, "transposed"),
                 !.rt = {}]]

\* g with the created nodes added
Attach(g, created) ==
    [n \in DOMAIN g \cup {c.id : c \in created} |->
        IF \E c \in created : c.id = n
        THEN (CHOOSE c \in created : c.id = n).node
        ELSE g[n]]

\* mutant: only one of the consumers of target is rewired
replace_node_OneConsumer(g, target, replacement) ==
    LET first == CHOOSE c \in DOMAIN g : \E p \in 1..Len(g[c].in) : g[c].in[p] = target
    IN [n \in DOMAIN g |->
          [g[n] EXCEPT !.in = [p \in 1..Len(g[n].in) |->
                                  IF n = first /\ g[n].in[p] = target THEN replacement
                                  ELSE g[n].in[p]]]]

\* ov::replace_node (line 136): every input reading target reads replacement
replace_node(g, target, replacement) ==
    [n \in DOMAIN g |->
        [g[n] EXCEPT !.in = [p \in 1..Len(g[n].in) |->
                                IF g[n].in[p] = target THEN replacement
                                ELSE g[n].in[p]]]]

\* Nodes are owned by their consumers and the model by its results: when
\* the callback returns and the matcher drops the pattern map, every node no
\* result depends on is destroyed.
RECURSIVE Reach(_, _)
Reach(g, S) ==
    LET T == S \cup UNION {{g[n].in[p] : p \in 1..Len(g[n].in)} : n \in S}
    IN IF T = S THEN S ELSE Reach(g, T)

Release(g) ==
    LET live == Reach(g, {n \in DOMAIN g : g[n].type = "Result"})
    IN [n \in live |-> g[n]]

\* lines 65-68
RequiredBindings(m) ==
    /\ m.fully_connected_m # None
    /\ m.mul_const_m # None
    /\ m.weights_m # None
    /\ m.convert_m # None

\* mutant: the fused node keeps its generated name
NewFc_AutoName(g, m, fc_input_b, fc_input_scale, fc_input_zp, with_zero_point) ==
    LET fc == m.fully_connected_m
    IN [id |-> NewId(fc, "compressed"),
        node |-> [type |-> "FullyConnectedCompressed",
                  in |-> IF with_zero_point
                         THEN <<g[fc].in[1], fc_input_b, fc_input_scale, fc_input_zp>>
                         ELSE <<g[fc].in[1], fc_input_b, fc_input_scale>>,
                  shape |-> g[fc].shape,
                  et |-> g[fc].et,
                  name |-> NewId(fc, "compressed"),
                  val |-> <<>>,
                  buf |-> None,
                  rt |-> MatchedNodes(m)]]

\* mutant: the fused node reads the weights input of the replaced node
NewFc_KeepsWeightsInput(g, m, fc_input_b, fc_input_scale, fc_input_zp, with_zero_point) ==
    LET fc == m.fully_connected_m
    IN [id |-> NewId(fc, "compressed"),
        node |-> [type |-> "FullyConnectedCompressed",
                  in |-> IF with_zero_point
                         THEN <<g[fc].in[1], g[fc].in[2], fc_input_scale, fc_input_zp>>
                         ELSE <<g[fc].in[1], g[fc].in[2], fc_input_scale>>,
                  shape |-> g[fc].shape,
                  et |-> g[fc].et,
                  name |-> g[fc].name,
                  val |-> <<>>,
                  buf |-> None,
                  rt |-> MatchedNodes(m)]]

\* lines 120-135: the fused node
NewFc(g, m, fc_input_b, fc_input_scale, fc_input_zp, with_zero_point) ==
    LET fc == m.fully_connected_m
    IN [id |-> NewId(fc, "compressed"),
        node |-> [type |-> "FullyConnectedCompressed",
                  in |-> IF with_zero_point
                         THEN <<g[fc].in[1], fc_input_b, fc_input_scale, fc_input_zp>>
                         ELSE <<g[fc].in[1], fc_input_b, fc_input_scale>>,
                  shape |-> g[fc].shape,
                  et |-> g[fc].et,
                  name |-> g[fc].name,
                  val |-> <<>>,
                  buf |-> None,
                  rt |-> MatchedNodes(m)]]

\* lines 92-132: the nodes the callback creates, and the fused node among
\* them
Created(g, m) ==
    LET has_transpose == m.transpose_m # None
        grouped == Grouped(g[m.mul_const_m].shape)
        with_zero_point == m.subtract_m # None
        scale == ConstTo2d(g, m.mul_const_m, has_transpose, grouped)
        zero_point == IF with_zero_point
                      THEN ConstTo2d(g, m.sub_const_m, has_transpose, grouped)
                      ELSE scale
        weight == ConstTo2d(g, m.weights_m, has_transpose, grouped)
        consts == {weight, scale} \cup (IF with_zero_point THEN {zero_point} ELSE {})
        order == TransposeConst(g, m.transpose_const_m, Len(weight.node.shape))
        tw == TransposeClone(g, m.transpose_m, weight, order)
        ts == TransposeClone(g, m.transpose_m, scale, order)
        tz == TransposeClone(g, m.transpose_m, zero_point, order)
        clones == IF has_transpose
                  THEN {order, tw, ts} \cup (IF with_zero_point THEN {tz} ELSE {})
                  ELSE {}
        fc_input_b == IF has_transpose THEN tw.id ELSE weight.id
        fc_input_scale == IF has_transpose THEN ts.id ELSE scale.id
        fc_input_zp == IF has_transpose THEN tz.id ELSE zero_point.id
        new_fc == NewFc(g, m, fc_input_b, fc_input_scale, fc_input_zp, with_zero_point)
    IN [nodes |-> consts \cup clones \cup {new_fc}, new_fc |-> new_fc.id]

\* the value of a one-element set: used to compute a step of the callback
\* once before the next step reads it
The(S) == CHOOSE x \in S : TRUE

\* lines 92-137, the graph the callback leaves when nothing is raised: the
\* created nodes are attached, the fully-connected node is replaced by the
\* fused one, and the nodes nothing depends on any more are destroyed
Rewrite(g, m) ==
    The({Release(replaced) :
            replaced \in {replace_node(Attach(g, c.nodes), m.fully_connected_m, c.new_fc) :
                            c \in {Created(g, m)}}})

\* lines 93-101: some reshape_const_to_2d call fails its rank assertion.  The
\* constants created before the failing call have no consumer and die with
\* the exception, which leaves the graph as it was.
RankViolation(g, m) ==
    \/ ~RankOk(g[m.mul_const_m].shape)
    \/ (m.subtract_m # None /\ ~RankOk(g[m.sub_const_m].shape))
    \/ ~RankOk(g[m.weights_m].shape)

\* mutant: the rewrite is skipped only if both tests of line 70 hold
SkipRewrite_Both(fc_is_null, veto) == fc_is_null /\ veto

\* line 70: !fc || transformation_callback(fc)
SkipRewrite(fc_is_null, veto) == fc_is_null \/ veto

\* the callback on binding map m; veto is what transformation_callback(fc)
\* answers.  ret is the returned flag, raised tells an exception left it.
\* The root is a FullyConnected, so the cast of line 69 is never null.
callback(g, m, veto) ==
    IF ~RequiredBindings(m) THEN [ret |-> FALSE, raised |-> TRUE, graph |-> g]
    ELSE IF SkipRewrite(~IsFullyConnected(g, m.fully_connected_m), veto)
         THEN [ret |-> FALSE, raised |-> FALSE, graph |-> g]
    ELSE IF RankViolation(g, m) THEN [ret |-> FALSE, raised |-> TRUE, graph |-> g]
    ELSE [ret |-> TRUE, raised |-> FALSE, graph |-> Rewrite(g, m)]

(***************************************************************************)
(* The models the pass is run on: one fully-connected node fed by a        *)
(* decompression sub-graph                                                 *)
(*   w -> cvt [-> sub(zp)] -> mul(sc) [-> rs(rc)] [-> tr(tc)] -> fc(data,.)*)
(* with two results reading fc, and a second consumer on some constants.   *)
(***************************************************************************)
\* weight shapes: every shape of rank 2 and 3, the scenario's shape, and for
\* the ranks the callback rejects (it reads nothing but their rank) the
\* shapes with all dimensions equal
ShapesOfRank(r) ==
    IF r \in {2, 3}
    THEN [1..r -> 1..MaxDim]
    ELSE {[i \in 1..r |-> d] : d \in 1..MaxDim}

WeightShapes == UNION {ShapesOfRank(r) : r \in 1..MaxRank} \cup {ScenarioShape}

\* scale shapes: the weight shape with any of its dimensions set to 1
\* (per-tensor, per-channel, per-group scales), and the scalar
ScaleShapes(ws) ==
    {[i \in 1..Len(ws) |-> IF i \in keep THEN ws[i] ELSE 1] :
        keep \in SUBSET (1..Len(ws))} \cup {<<>>}

\* zero-point shapes: that of the scale, or the scalar
ZpShapes(ws, ss) == {ss, <<>>}

\* transpose orders: of the rank of the transposed value, or empty (an empty
\* order reverses the axes)
Perms2 == {<<1, 0>>, <<>>}
Perms3 == {<<0, 2, 1>>}

Topology(rs, hasTr, perm) == [rs |-> rs, hasTr |-> hasTr, perm |-> perm]

\* the optional reshape and transpose that fit a dequantized weight of rank r
Topologies(r) ==
    {Topology("none", FALSE, <<>>)} \cup
    (IF r = 3
     THEN {Topology("none", TRUE, p) : p \in Perms3} \cup
          {Topology(t, FALSE, <<>>) : t \in {"first", "last"}} \cup
          {Topology(t, TRUE, p) : t \in {"first", "last"}, p \in Perms2}
     ELSE IF r = 2 THEN {Topology("none", TRUE, p) : p \in Perms2}
     ELSE IF r > 3 THEN {Topology("none", TRUE, NewOrder(r))}
     ELSE {})

ReshapeTarget(s, t) ==
    IF t = "first" THEN <<s[1] * s[2], s[3]>> ELSE <<s[1], s[2] * s[3]>>

Op(type, in, shape, et, id) == Node(type, in, shape, et, id, <<>>, None)

Build(wet, ws, ss, hasZp, zs, topo, extras, fcet) ==
    LET subShape == Broadcast(ws, zs)
        mulIn    == IF hasZp THEN "sub" ELSE "cvt"
        mulShape == Broadcast(IF hasZp THEN subShape ELSE ws, ss)
        hasRs    == topo.rs # "none"
        rsShape  == ReshapeTarget(mulShape, topo.rs)
        trIn     == IF hasRs THEN "rs" ELSE "mul"
        trShape  == Permute(IF hasRs THEN rsShape ELSE mulShape, topo.perm)
        fcIn     == IF topo.hasTr THEN "tr" ELSE trIn
        base ==
            ("data" :> Op("Parameter", <<>>, <<>>, fcet, "data")) @@
            ("w"    :> Constant("w", wet, ws, <<>>)) @@
            ("cvt"  :> Op("Convert", <<"w">>, ws, "f16", "cvt")) @@
            ("sc"   :> Constant("sc", "f16", ss, <<>>)) @@
            ("mul"  :> Op("Multiply", <<mulIn, "sc">>, mulShape, "f16", "mul")) @@
            ("fc"   :> Op("FullyConnected", <<"data", fcIn>>, <<>>, fcet, "fc")) @@
            ("res1" :> Op("Result", <<"fc">>, <<>>, fcet, "res1")) @@
            ("res2" :> Op("Result", <<"fc">>, <<>>, fcet, "res2"))
        zpNodes ==
            ("zp"  :> Constant("zp", "f16", zs, <<>>)) @@
            ("sub" :> Op("Subtract", <<"cvt", "zp">>, subShape, "f16", "sub"))
        rsNodes ==
            ("rc" :> Constant("rc", "i64", <<2>>, rsShape)) @@
            ("rs" :> Op("Reshape", <<"mul", "rc">>, rsShape, "f16", "rs"))
        trNodes ==
            ("tc" :> Constant("tc", "i64", <<Len(topo.perm)>>, topo.perm)) @@
            ("tr" :> Op("Transpose", <<trIn, "tc">>, trShape, "f16", "tr"))
        g1 == IF hasZp THEN base @@ zpNodes ELSE base
        g2 == IF hasRs THEN g1 @@ rsNodes ELSE g1
        g3 == IF topo.hasTr THEN g2 @@ trNodes ELSE g2
    IN [n \in DOMAIN g3 \cup {NewId(e, "user") : e \in extras} |->
           IF n \in DOMAIN g3 THEN g3[n]
           ELSE LET e == CHOOSE e \in extras : NewId(e, "user") = n
                IN Op("Result", <<e>>, g3[e].shape, g3[e].et, n)]

CompressedTypes == {"u8", "i8"}
WeightTypes == CompressedTypes \cup {"f16"}
OutputTypes == {"f16", "f32"}

ZpChoices(ws, ss) ==
    {[has |-> FALSE, shape |-> <<>>]} \cup
    {[has |-> TRUE, shape |-> z] : z \in ZpShapes(ws, ss)}

\* the constants that get a second consumer
ExtraChoices(hasZp) ==
    {e \in SUBSET ({"w", "sc"} \cup (IF hasZp THEN {"zp"} ELSE {})) :
        Cardinality(e) <= MaxExtra}

(***************************************************************************)
(* The pass.                                                               *)
(***************************************************************************)
Attempt(root, outcome, veto, ret, before, m) ==
    [root |-> root, outcome |-> outcome, veto |-> veto, ret |-> ret,
     before |-> before, m |-> m]

\* Either family of models.  In the first the constants have one consumer
\* each and the weights are 8-bit, over every shape and topology.  In the
\* second the weight type and the second consumers vary; these decide only
\* whether the pattern matches, so they are combined with one weight shape
\* per accepted rank.
Init ==
    /\ \/ \E ws \in WeightShapes : \E ss \in ScaleShapes(ws) :
          \E zc \in ZpChoices(ws, ss) : \E topo \in Topologies(Len(ws)) :
          \E wet \in CompressedTypes : \E fcet \in OutputTypes :
             graph = Build(wet, ws, ss, zc.has, zc.shape, topo, {}, fcet)
       \/ \E ws \in {[i \in 1..r |-> MaxDim] : r \in {2, 3}} :
          \E zc \in {[has |-> FALSE, shape |-> <<>>], [has |-> TRUE, shape |-> ws]} :
          \E topo \in Topologies(Len(ws)) :
          \E wet \in WeightTypes : \E extras \in ExtraChoices(zc.has) :
          \E fcet \in OutputTypes :
             graph = Build(wet, ws, ws, zc.has, zc.shape, topo, extras, fcet)
    /\ queue = {}
    /\ runs = 0
    /\ phase = "idle"
    /\ rewrites = 0
    /\ last = Attempt(None, "none", FALSE, FALSE, graph, NoMatch)

\* the matcher is tried on the nodes of the root's type that are in the
\* model when the run starts (line 140: the root is fully_connected_m)
BeginRun ==
    /\ phase = "idle"
    /\ runs < MaxRuns
    /\ runs' = runs + 1
    /\ queue' = {n \in DOMAIN graph : IsFullyConnected(graph, n)}
    /\ phase' = "running"
    /\ UNCHANGED <<graph, rewrites, last>>

\* the pattern does not match at root: the callback is not called
Skip(root) ==
    /\ phase = "running"
    /\ root \in queue
    /\ ~Match(graph, root).matched
    /\ queue' = queue \ {root}
    /\ last' = Attempt(root, "nomatch", FALSE, FALSE, graph, NoMatch)
    /\ UNCHANGED <<graph, runs, phase, rewrites>>

Outcome(r) ==
    IF r.raised THEN "raised" ELSE IF r.ret THEN "replaced" ELSE "rejected"

\* the pattern matches at root and the callback runs to outcome
Invoke(root, veto, outcome) ==
    /\ phase = "running"
    /\ root \in queue
    /\ \E m \in {Match(graph, root)} :
          /\ m.matched
          /\ \E r \in {callback(graph, m, veto)} :
                /\ Outcome(r) = outcome
                /\ graph' = r.graph
                /\ rewrites' = IF r.ret THEN rewrites + 1 ELSE rewrites
                /\ phase' = IF r.raised THEN "failed" ELSE phase
                /\ last' = Attempt(root, outcome, veto, r.ret, graph, m)
    /\ queue' = queue \ {root}
    /\ UNCHANGED runs

Rejected(root) == \E veto \in BOOLEAN : Invoke(root, veto, "rejected")
Raised(root)   == \E veto \in BOOLEAN : Invoke(root, veto, "raised")
Replaced(root) == \E veto \in BOOLEAN : Invoke(root, veto, "replaced")

EndRun ==
    /\ phase = "running"
    /\ queue = {}
    /\ phase' = "idle"
    /\ UNCHANGED <<graph, queue, runs, rewrites, last>>

Next ==
    \/ BeginRun
    \/ \E root \in queue : Skip(root)
    \/ \E root \in queue : Rejected(root)
    \/ \E root \in queue : Raised(root)
    \/ \E root \in queue : Replaced(root)
    \/ EndRun

Spec == Init /\ [][Next]_vars

(***************************************************************************)
(* Properties.  "last" holds the latest attempt of the matcher: its root,  *)
(* the model before it, the binding map, what the veto predicate answered  *)
(* and how the attempt ended; "graph" is the model the attempt left.       *)
(***************************************************************************)
Before == last.before
Bound  == last.m
OldFc  == last.m.fully_connected_m
HasTranspose == last.m.transpose_m # None
HasSubtract  == last.m.subtract_m # None
Replaces == last.outcome = "replaced"

\* the matched weight, scale and zero-point constants, in operand order
MatchedConsts ==
    <<Bound.weights_m, Bound.mul_const_m>> \o
    (IF HasSubtract THEN <<Bound.sub_const_m>> ELSE <<>>)

FusedNodes == {n \in DOMAIN graph : graph[n].type = "FullyConnectedCompressed"}
Fused == CHOOSE n \in FusedNodes : TRUE

\* operand i of the fused node (1 is the weight, 2 the scale, 3 the
\* zero-point), and the constant behind it
Operand(i) == graph[Fused].in[i + 1]
OperandConst(i) ==
    IF graph[Operand(i)].type = "Transpose" THEN graph[Operand(i)].in[1] ELSE Operand(i)

RanksAccepted == \A i \in 1..Len(MatchedConsts) : Len(Before[MatchedConsts[i]].shape) \in {2, 3}

ScaleIsGrouped ==
    LET s == Before[Bound.mul_const_m].shape
    IN Cardinality({i \in 1..Len(s) : s[i] > 1}) >= 2

\* every consumer of the replaced node reads the fused node instead, and
\* nothing reads the replaced node any more
Rewired ==
    /\ \A c \in Consumers(Before, OldFc) :
          /\ c \in DOMAIN graph
          /\ Len(graph[c].in) = Len(Before[c].in)
          /\ \A p \in 1..Len(Before[c].in) :
                graph[c].in[p] = IF Before[c].in[p] = OldFc THEN Fused ELSE Before[c].in[p]
    /\ \A n \in DOMAIN graph : \A p \in 1..Len(graph[n].in) : graph[n].in[p] # OldFc

\* what C1 says of a performed replacement
OneFusedNode ==
    /\ Cardinality(FusedNodes) = 1
    /\ Fused \notin DOMAIN Before
    /\ OldFc \notin DOMAIN graph
    /\ Rewired
    /\ Len(graph[Fused].in) = IF HasSubtract THEN 4 ELSE 3
    /\ graph[Fused].in[1] = Before[OldFc].in[1]
    /\ graph[Before[OldFc].in[1]] = Before[Before[OldFc].in[1]]
    /\ \A i \in 1..Len(MatchedConsts) :
          /\ graph[OperandConst(i)].type = "Constant"
          /\ graph[OperandConst(i)].buf = Before[MatchedConsts[i]].buf
    /\ graph[Fused].name = Before[OldFc].name
    /\ graph[Fused].et = Before[OldFc].et

\* C1 as stated: wherever the full pattern matches, the pass replaces the
\* fully-connected node with exactly one fused node whose operands are the
\* data input, the weight, the scale and (iff the subtract route matched) the
\* zero-point, with the display name and output type of the replaced node.
C1_ReplacesEveryMatch ==
    Bound.matched => (Replaces /\ OneFusedNode)

\* C1 amended: the same, wherever the pattern matches, the veto predicate
\* does not disallow the root and the matched weight, scale and zero-point
\* constants have rank 2 or 3; in the other cases nothing is replaced.
C1_ReplacesAcceptedMatch ==
    Bound.matched =>
        /\ (~last.veto /\ RanksAccepted) => (Replaces /\ OneFusedNode)
        /\ (last.veto \/ ~RanksAccepted) => (~Replaces /\ graph = Before)

C1_Witness ==
    /\ Replaces /\ HasSubtract /\ HasTranspose
    /\ Len(graph[Fused].in) = 4
    /\ graph[Fused].name = "fc"
    /\ Before[OldFc].et = "f32"

\* C2: canonicalization law.  A matched constant of shape [d0, d1, d2]
\* becomes [d0, d1*d2] if the scale is grouped and no transpose was matched,
\* and [d0*d1, d2] otherwise; grouped means that more than one dimension of
\* the matched scale constant exceeds 1.  A grouped [2,4,8] weight becomes
\* [2,32] without a transpose and [8,8] with one.
C2_CanonicalizationLaw ==
    Replaces =>
        /\ \A i \in 1..Len(MatchedConsts) :
              LET d == Before[MatchedConsts[i]].shape
              IN Len(d) = 3 =>
                    graph[OperandConst(i)].shape =
                        IF ScaleIsGrouped /\ ~HasTranspose
                        THEN <<d[1], d[2] * d[3]>>
                        ELSE <<d[1] * d[2], d[3]>>
        /\ (Before[Bound.weights_m].shape = <<2, 4, 8>> /\ ScaleIsGrouped) =>
              graph[OperandConst(1)].shape =
                  IF HasTranspose THEN <<8, 8>> ELSE <<2, 32>>

C2_Witness ==
    /\ Replaces /\ ~HasTranspose /\ ScaleIsGrouped
    /\ Before[Bound.weights_m].shape = <<2, 4, 8>>
    /\ Before[Bound.mul_const_m].shape = <<2, 4, 1>>
    /\ graph[OperandConst(1)].shape = <<2, 32>>
    /\ graph[OperandConst(2)].shape = <<2, 4>>

\* C3: veto law.  When the veto predicate disallows the matched root, the
\* callback reports no change and the model is what it was: same nodes,
\* edges, names and consumers, nothing created is attached.
C3_VetoLaw ==
    (Bound.matched /\ last.veto) =>
        /\ last.outcome = "rejected"
        /\ ~last.ret
        /\ graph = Before
        /\ FusedNodes = {n \in DOMAIN Before : Before[n].type = "FullyConnectedCompressed"}

C3_Witness ==
    /\ Bound.matched /\ last.veto /\ last.outcome = "rejected"
    /\ HasTranspose /\ Len(Before[Bound.weights_m].shape) = 3
    /\ graph = Before

\* C4: transpose law.  When a transpose was matched, the weight, scale and
\* zero-point operands of the fused node are each a transpose of their
\* constant by one and the same permutation constant; when none was matched,
\* no operand is transposed.
C4_TransposeLaw ==
    Replaces =>
        \A i \in 1..Len(MatchedConsts) :
            IF HasTranspose
            THEN /\ graph[Operand(i)].type = "Transpose"
                 /\ graph[graph[Operand(i)].in[1]].type = "Constant"
                 /\ graph[Operand(i)].in[2] = graph[Operand(1)].in[2]
                 /\ graph[graph[Operand(i)].in[2]].type = "Constant"
            ELSE graph[Operand(i)].type = "Constant"

C4_Witness ==
    /\ Replaces /\ HasTranspose /\ HasSubtract
    /\ graph[Operand(3)].type = "Transpose"
    /\ graph[Operand(3)].in[2] = graph[Operand(1)].in[2]
    /\ graph[Operand(3)].in[2] # Bound.transpose_const_m

\* the constants of the candidate at fc that have two or more consumers
SharedConsts(g) ==
    {k \in {"w", "sc", "zp"} \cap DOMAIN g :
        Cardinality({cp \in UNION {{<<c, p>> : p \in 1..Len(g[c].in)} : c \in DOMAIN g} :
                        g[cp[1]].in[cp[2]] = k}) >= 2}

\* C5: single-consumer law.  A candidate whose weight constant, scale
\* constant or zero-point constant has two or more consumers is never
\* matched: no rewrite is performed for it and the model is left unchanged.
C5_SingleConsumerLaw ==
    /\ ("fc" \in DOMAIN graph /\ SharedConsts(graph) # {}) => ~Match(graph, "fc").matched
    /\ (last.root = "fc" /\ SharedConsts(Before) # {}) =>
          /\ last.outcome = "nomatch"
          /\ graph = Before
          /\ rewrites = 0

C5_Witness ==
    /\ last.root = "fc" /\ last.outcome = "nomatch"
    /\ Before["w"].et = "i8"
    /\ SharedConsts(Before) = {"zp"}
    /\ runs = 2 /\ phase = "idle" /\ rewrites = 0 /\ graph = Before

\* C6: idempotence.  After the pass has rewritten a location, running it
\* again on its own output never matches: the fused node with its new weight
\* input does not satisfy the pattern, so there is at most one rewrite per
\* original fully-connected node.
C6_Idempotence ==
    /\ rewrites <= 1
    /\ \A n \in FusedNodes :
          /\ ~Match(graph, n).matched
          /\ graph[graph[n].in[2]].type = "Constant"
             \/ /\ graph[graph[n].in[2]].type = "Transpose"
                /\ graph[graph[graph[n].in[2]].in[1]].type = "Constant"
    /\ (last.root \in DOMAIN Before /\ Before[last.root].type = "FullyConnectedCompressed")
          => (last.outcome = "nomatch" /\ graph = Before)

C6_Witness ==
    /\ runs = 2 /\ rewrites = 1 /\ last.outcome = "nomatch"
    /\ Before[last.root].type = "FullyConnectedCompressed"
    /\ Before[Before[last.root].in[2]].type = "Transpose"
    /\ graph = Before

\* the replacement is committed: the fused node is there, the consumers of
\* the replaced node read it, and every other node that is still in the
\* model is as it was
Committed ==
    /\ Cardinality(FusedNodes) = 1
    /\ Fused \notin DOMAIN Before
    /\ Rewired
    /\ \A n \in (DOMAIN graph \cap DOMAIN Before) \ Consumers(Before, OldFc) :
          graph[n] = Before[n]

\* C7: atomicity.  An attempt ends fully committed or fully aborted (the
\* model identical to the one before it); an attempt that is skipped, vetoed
\* or ended by a raised contract violation leaves the model unchanged.
C7_Atomicity ==
    /\ last.outcome = "replaced" => Committed
    /\ last.outcome \in {"none", "nomatch", "rejected", "raised"} => graph = Before
    /\ last.outcome = "raised" <=> phase = "failed"

C7_Witness ==
    /\ last.outcome = "replaced" /\ Committed
    /\ Consumers(Before, OldFc) = {"res1", "res2"}
    /\ graph["res1"].in = <<Fused>> /\ graph["res2"].in = <<Fused>>

\* C8: rank contract of the shape canonicalizer.  A rank-2 constant is
\* returned as it is (the same node); a rank-3 constant gives a new rank-2
\* constant over the same data with the same element count; any other rank
\* raises; so the constants feeding a fused node all have rank 2.
C8_RankContract ==
    /\ Replaces =>
          \A i \in 1..Len(MatchedConsts) :
              LET old == MatchedConsts[i]
                  new == OperandConst(i)
              IN /\ Len(Before[old].shape) \in {2, 3}
                 /\ Len(graph[new].shape) = 2
                 /\ Len(Before[old].shape) = 2 => (new = old /\ graph[new] = Before[old])
                 /\ Len(Before[old].shape) = 3 =>
                       /\ new \notin DOMAIN Before
                       /\ graph[new].type = "Constant"
                       /\ graph[new].buf = Before[old].buf
                       /\ graph[new].et = Before[old].et
                       /\ ShapeSize(graph[new].shape) = ShapeSize(Before[old].shape)
    /\ (Bound.matched /\ ~last.veto /\ ~RanksAccepted) =>
          (last.outcome = "raised" /\ phase = "failed")

C8_Witness ==
    /\ last.outcome = "raised" /\ phase = "failed"
    /\ Len(Before[Bound.weights_m].shape) = 3
    /\ Len(Before[Bound.mul_const_m].shape) = 3
    /\ HasSubtract /\ Len(Before[Bound.sub_const_m].shape) = 0

\* the permutation constant the weight operand is transposed by
UsedOrder == graph[Operand(1)].in[2]

\* C9: stale-permutation rule.  With a transpose matched, if the element
\* count of the matched permutation constant differs from the rank r of the
\* canonical weight, the weight, scale and zero-point are transposed by the
\* fresh permutation [0, ..., r-3, r-1, r-2] of length r ([1, 0], r being
\* 2); if it equals r, the matched constant itself is used for all three.
C9_StalePermutation ==
    (Replaces /\ HasTranspose) =>
        LET tc == Bound.transpose_const_m
            r  == Len(graph[OperandConst(1)].shape)
        IN /\ r = 2
           /\ \A i \in 1..Len(MatchedConsts) : graph[Operand(i)].in[2] = UsedOrder
           /\ IF ShapeSize(Before[tc].shape) # r
              THEN /\ UsedOrder \notin DOMAIN Before
                   /\ graph[UsedOrder].type = "Constant"
                   /\ graph[UsedOrder].shape = <<r>>
                   /\ graph[UsedOrder].val = <<1, 0>>
              ELSE /\ UsedOrder = tc
                   /\ graph[UsedOrder] = Before[tc]

C9_Witness ==
    /\ Replaces /\ HasTranspose /\ HasSubtract
    /\ Before[Bound.transpose_const_m].val = <<0, 2, 1>>
    /\ UsedOrder # Bound.transpose_const_m
    /\ graph[UsedOrder].val = <<1, 0>>

\* C10: shape equivalence with the matched reshape.  When the matched
\* sub-graph holds the 3D-to-2D reshape of a rank-3 weight and no transpose,
\* the weight operand of the fused node has the shape the reshape produced,
\* for every reshape target and every scale shape.
C10_ReshapeEquivalence ==
    (Replaces /\ Bound.reshape_m # None /\ ~HasTranspose
        /\ Len(Before[Bound.weights_m].shape) = 3) =>
        graph[Operand(1)].shape = Before[Bound.reshape_m].shape

====
